---- MODULE Spec2Model ----
(***************************************************************************)
(* A model of pleasanter-chat-api: the chat endpoint (ChatService) with    *)
(* its two paths, the stateless completion call and the attachment         *)
(* workflow against the AI provider, and the site-id endpoint that         *)
(* fetches a site's records and caches them under data/site_<id>.json.     *)
(*                                                                         *)
(* Text is a sequence of characters; each character is written as a short  *)
(* romanised string ("ken","suu" for the two characters of the keyword     *)
(* 件数).  The vocabularies below are a subset of the lists of the source, *)
(* kept in the source's order.                                             *)
(***************************************************************************)
EXTENDS Integers, Sequences, FiniteSets, TLC

VARIABLES
    apiKey,          \* settings.OPENAI_API_KEY
    pleasanterKey,   \* settings.PLEASANTER_API_KEY
    now,             \* wall clock, in seconds (time.time(), st_mtime)
    assistants,      \* the provider's assistants, in the order list() returns them
    waiting,         \* number of chat requests received and not yet started
    served,          \* number of chat requests started so far
    pc,              \* position of the running chat job in process_message
    msg,             \* user_message of the running chat job
    route,           \* path chosen by process_message: "simple" | "advanced"
    reply,           \* what process_message returned (or that it raised)
    calls,           \* operation -> number of times the job issued it
    failed,          \* a step of the job has failed
    self_assistant,  \* self.assistant: id of the assistant the job holds
    assistant_id,    \* result of _create_or_get_assistant
    json_file_path,  \* result of _get_latest_site_file
    uploaded,        \* the bytes handed to files.create
    start_time,      \* start_time of _wait_for_completion
    lastPoll,        \* now - start_time when the latest runs.retrieve was issued
    runStatus,       \* run.status as last retrieved ("pending" for queued/in_progress)
    listing,         \* messages.data as returned by threads.messages.list
    dirExists,       \* Path("data").exists()
    files,           \* file name -> [content, mtime], the data directory
    fetch,           \* site-id request -> [pc, site, data, reply]
    prev,            \* what the cache file held before the handler's save
    lastSaved,       \* the cache file the latest successful save wrote
    current_data     \* main._current_pleasanter_data

vars == <<apiKey, pleasanterKey, now, assistants, waiting, served, pc, msg, route,
          reply, calls, failed, self_assistant, assistant_id, json_file_path, uploaded,
          start_time, lastPoll, runStatus, listing, dirExists, files, fetch,
          prev, lastSaved, current_data>>

chatVars == <<waiting, served, pc, msg, route, reply, calls, failed, self_assistant,
              assistant_id,
              json_file_path, uploaded, start_time, lastPoll, runStatus, listing>>

diskVars == <<dirExists, files, fetch, prev, lastSaved, current_data>>

None == "None"
\* None where a path, an identifier, a payload, an upload or a response is expected
NoPath == [stem |-> "", id |-> 0, ext |-> ""]
NoId == 0
NoData == <<"None">>
NoUpload == [path |-> NoPath, content |-> <<>>]
NoResponse == [status |-> "", site_id |-> 0, message |-> "", status_code |-> 0]

(***************************************************************************)
(* Bounds of the model.                                                    *)
(***************************************************************************)
MaxChats == 2       \* chat requests received in one run of the model
MaxFetches == 2     \* site-id requests received in one run of the model
StartWindow == 1    \* requests are received, and idle time passes, up to this time
MaxCore == 3        \* characters of a classified message before its padding

(***************************************************************************)
(* Program constants.                                                      *)
(***************************************************************************)
Timeout == 60          \* _wait_for_completion(timeout: int = 60)
SleepInterval == 1     \* time.sleep(1)
LongMessage == 100        \* len(message) > 100
PageLimit == 20           \* assistants.list() without limit: the provider's page of 20

AssistantName == "pleasanter_data_analysis_assistant"

\* ChatService.error_messages
error_messages == [API_KEY_INVALID |-> "API_KEY_INVALID",
                   NO_DATA |-> "NO_DATA",
                   GENERAL_ERROR |-> "GENERAL_ERROR"]

\* ChatService.data_analysis_keywords (件数, 分析, ?)
data_analysis_keywords == << <<"ken", "suu">>, <<"bun", "seki">>, <<"?">> >>

\* ChatService.complex_keywords (複雑, 分析)
complex_keywords == << <<"fuku", "zatsu">>, <<"bun", "seki">> >>

\* ChatService.question_patterns, as written in the source: regular expressions
\* (\?, どうる)
question_patterns == << <<"\\", "?">>, <<"do", "u", "ru">> >>

(***************************************************************************)
(* Text helpers.                                                           *)
(***************************************************************************)
\* str.lower() on one character: only the cased letter of the alphabet changes
LowerChar(c) == IF c = "A" THEN "a" ELSE c

\* str.lower()
Lower(s) == [i \in 1..Len(s) |-> LowerChar(s[i])]

\* keyword in message: substring test
Contains(k, s) ==
    \E i \in 0..(Len(s) - Len(k)) : \A j \in 1..Len(k) : s[i + j] = k[j]

\* the literal a pattern of question_patterns matches: a backslash escapes the
\* character after it
RECURSIVE Unescape(_)
Unescape(p) ==
    IF p = <<>> THEN <<>>
    ELSE IF Head(p) = "\\" /\ Len(p) >= 2
         THEN <<p[2]>> \o Unescape(SubSeq(p, 3, Len(p)))
         ELSE <<Head(p)>> \o Unescape(Tail(p))

\* re.search(pattern, s) for the patterns of the source, which hold no
\* metacharacter but the escaped question mark
ReSearch(p, s) == Contains(Unescape(p), s)

\* a message is its leading characters followed by pad filler characters
Text(m) == m.core \o [i \in 1..m.pad |-> "a"]

(***************************************************************************)
(* The classifier.                                                         *)
(***************************************************************************)
\* a classifier that forgets the interrogative patterns
NeedsDataKeywordsOnly(message) ==
    \E i \in 1..Len(data_analysis_keywords) :
        Contains(data_analysis_keywords[i], Lower(message))

\* ChatService._needs_data_analysis
_needs_data_analysis(message) ==
    LET message_lower == Lower(message) IN
    \/ \E i \in 1..Len(data_analysis_keywords) :
           Contains(data_analysis_keywords[i], message_lower)
    \/ \E i \in 1..Len(question_patterns) :
           ReSearch(question_patterns[i], message_lower)

\* ChatService._needs_gpt4
_needs_gpt4(message) ==
    \/ _needs_data_analysis(message)
    \/ \E i \in 1..Len(complex_keywords) :
           Contains(complex_keywords[i], Lower(message))
    \/ Len(message) > LongMessage

\* a client initialised whenever the key is set at all, the empty string included
InitializeOnNotNone(key) == key # None

\* ChatService._initialize_client: False when the key is None or empty
_initialize_client(key) == ~(key = None \/ key = "")

\* ChatService._get_system_prompt
_get_system_prompt(for_data_analysis) ==
    IF for_data_analysis THEN "prompt_data_analysis" ELSE "prompt_simple"

(***************************************************************************)
(* Inputs and external outcomes.                                           *)
(***************************************************************************)
\* messages of the chat requests: a plain one and one with a data keyword
ChatMessages ==
    { [core |-> <<"A">>, pad |-> 0],
      [core |-> <<"ken", "suu">>, pad |-> 0] }

\* the characters of the classified messages: those of the vocabularies and a
\* cased letter
Alphabet ==
    {"ken", "suu", "bun", "seki", "?", "fuku", "zatsu", "do", "u", "ru", "A"}

RECURSIVE Strings(_)
\* the texts of at most n characters
Strings(n) ==
    IF n = 0 THEN {<<>>}
    ELSE LET shorter == Strings(n - 1)
         IN shorter \cup {Append(t, c) : t \in shorter, c \in Alphabet}

\* paddings that bring a message under, to and over the length threshold
PadLens == {0, LongMessage - MaxCore, LongMessage - MaxCore + 1}

\* the messages the classifier is checked on
AllMessages == {[core |-> c, pad |-> n] : c \in Strings(MaxCore), n \in PadLens}

Sites == {1, 2}

\* response.json() of the records platform: the records of Response.Data
Payloads == { <<"r1">>, <<"r2", "r3">> }

\* operations a chat job issues against the AI provider
ProviderOps ==
    {"completion", "assistants_list", "assistants_create", "assistants_update",
     "files_create", "threads_create", "messages_create", "runs_create",
     "runs_retrieve", "messages_list"}

\* the provider operations and the local dataset lookup
Ops == ProviderOps \cup {"site_file_lookup"}

NonTerminal == {"queued", "in_progress"}
FailedStatuses == {"failed", "cancelled", "expired"}
RunStatuses == NonTerminal \cup {"completed"} \cup FailedStatuses

\* what the job keeps of a retrieved status: the loop treats every status that
\* is neither completed nor failed/cancelled/expired alike
Observed(s) == IF s \in NonTerminal THEN "pending" ELSE s

TextPart(v) == [type |-> "text", value |-> v]
ImagePart == [type |-> "image_file", value |-> "img"]
UserMessage == [role |-> "user", content |-> <<TextPart("question")>>]
AssistantMessage(parts) == [role |-> "assistant", content |-> parts]

\* what threads.messages.list can return after a completed run, newest first
Listings ==
    { <<UserMessage>>,
      <<AssistantMessage(<<TextPart("t1")>>), UserMessage>>,
      <<AssistantMessage(<<ImagePart>>), UserMessage>>,
      <<AssistantMessage(<<ImagePart, TextPart("t2"), TextPart("t3")>>), UserMessage>>,
      <<AssistantMessage(<<TextPart("t4")>>), AssistantMessage(<<TextPart("t1")>>),
        UserMessage>>,
      <<AssistantMessage(<<ImagePart>>), AssistantMessage(<<TextPart("t1")>>),
        UserMessage>> }

(***************************************************************************)
(* Replies of process_message.                                             *)
(***************************************************************************)
NoReply == [kind |-> "none", text |-> ""]
Answer(t) == [kind |-> "answer", text |-> t]
\* error_messages[key], GENERAL_ERROR formatted with the error text
ErrorReply(key, error) == [kind |-> error_messages[key], text |-> error]
\* process_message did not return: the exception went to its caller
Raised == [kind |-> "raised", text |-> "exception"]

\* a handler holds the event loop.  The chat coroutine's provider calls are
\* calls of the synchronous client and its sleep is time.sleep, so from its
\* first statement to its response it never hands the loop back; the site-id
\* handler hands it back only at its await of client.post.
LoopBusy == pc # "idle" \/ \E f \in DOMAIN fetch : fetch[f].pc = "done"

Bump(op) == [calls EXCEPT ![op] = @ + 1]

(***************************************************************************)
(* The dataset cache as the chat job reads it.                             *)
(***************************************************************************)
\* json.dump(data, f): the serialised payload, as the tokens written
Dump(data) == <<"{">> \o data \o <<"}">>

\* f"site_{site_id}.json"
SiteFileName(site_id) == [stem |-> "site_", id |-> site_id, ext |-> ".json"]

\* a pattern that matches the cache file of site 1 only
GlobSiteOne(fs) == {n \in DOMAIN fs : n.stem = "site_" /\ n.id = 1 /\ n.ext = ".json"}

\* data_dir.glob("site_*.json")
Glob(fs) == {n \in DOMAIN fs : n.stem = "site_" /\ n.ext = ".json"}

\* ChatService._get_latest_site_file: the files max() can return, one of those
\* with the greatest st_mtime (which one depends on the directory order);
\* empty when the function returns None
_get_latest_site_file ==
    IF ~dirExists THEN {}
    ELSE LET json_files == Glob(files) IN
         {f \in json_files : \A g \in json_files : files[g].mtime <= files[f].mtime}

(***************************************************************************)
(* Decisions of the attachment workflow.                                   *)
(***************************************************************************)
Min(S) == CHOOSE x \in S : \A y \in S : x <= y
Max(S) == CHOOSE x \in S : \A y \in S : y <= x

\* a lookup whose None result is not checked
AfterLookupUnchecked(path) == "assistant"

\* _advanced_chat_with_data: if not json_file_path: return NO_DATA
AfterLookup(path) == IF path = NoPath THEN "done" ELSE "assistant"

\* an assistant identifier that is used without being checked
AfterAssistantUnchecked(aid) == "upload"

\* _advanced_chat_with_data: if not assistant_id: return GENERAL_ERROR
AfterAssistant(aid) == IF aid = NoId THEN "done" ELSE "upload"

\* an upload that is tried again when it gave no file id
AfterUploadRetry(file_id) == IF file_id = None THEN "upload" ELSE "thread"

\* _advanced_chat_with_data: if not file_id: return GENERAL_ERROR
AfterUpload(file_id) == IF file_id = None THEN "done" ELSE "thread"

\* a loop that still polls when the elapsed time equals the timeout
LoopConditionInclusive(t, start, timeout) == t - start <= timeout

\* _wait_for_completion: while time.time() - start_time < timeout
LoopCondition(t, start, timeout) == t - start < timeout

\* a loop that only a completed run ends before the timeout
AfterPollKeepWaiting(status) == IF status = "completed" THEN "list" ELSE "sleep"

\* _wait_for_completion: what follows a retrieved status
AfterPoll(status) ==
    IF status = "completed" THEN "list"
    ELSE IF status \in FailedStatuses THEN "done"
    ELSE "sleep"

\* assistants.list() called without limit or cursor, read through .data: the
\* first page of the provider's assistants, the PageLimit newest
FirstPage(list) == SubSeq(list, 1, Min({PageLimit, Len(list)}))

\* _create_or_get_assistant: the first assistant of the list with the fixed
\* name (its index), 0 when there is none
FindAssistant(list) ==
    LET hits == {i \in 1..Len(list) : list[i].name = AssistantName} IN
    IF hits = {} THEN 0 ELSE Min(hits)

\* indices of the assistant-authored messages of data with a text-typed part
WithText(data) ==
    {i \in 1..Len(data) :
        /\ data[i].role = "assistant"
        /\ \E j \in 1..Len(data[i].content) : data[i].content[j].type = "text"}

FirstText(m) ==
    m.content[Min({j \in 1..Len(m.content) : m.content[j].type = "text"})].value

\* an extraction that keeps the last match of the scan instead of the first
ExtractReplyLast(data) ==
    IF WithText(data) = {} THEN None ELSE FirstText(data[Max(WithText(data))])

\* _advanced_chat_with_data, the two nested loops over messages.data: the
\* first text part of the first assistant message that has one, None when the
\* loops fall through
ExtractReply(data) ==
    IF WithText(data) = {} THEN None ELSE FirstText(data[Min(WithText(data))])

(***************************************************************************)
(* Initial state.                                                          *)
(***************************************************************************)
NoCalls == [op \in Ops |-> 0]

NoFetch == [pc |-> "none", site |-> 0, data |-> NoData, reply |-> NoResponse]

\* the process has just started: no request received, no handler running
InitBase ==
    /\ now = 0
    /\ waiting = 0
    /\ served = 0
    /\ pc = "idle"
    /\ msg = [core |-> <<>>, pad |-> 0]
    /\ route = None
    /\ reply = NoReply
    /\ calls = NoCalls
    /\ failed = FALSE
    /\ self_assistant = NoId
    /\ assistant_id = NoId
    /\ json_file_path = NoPath
    /\ uploaded = NoUpload
    /\ start_time = 0
    /\ lastPoll = 0
    /\ runStatus = None
    /\ listing = <<>>
    /\ fetch = [f \in 1..MaxFetches |-> NoFetch]
    /\ prev = <<>>
    /\ lastSaved = NoPath
    /\ current_data = NoData

\* the provider's assistants when the process starts, newest first: none, or
\* the named one with instructions of an earlier version beside an unrelated one
FewAssistants ==
    { <<>>,
      <<[id |-> 2, name |-> "other", instructions |-> "prompt_other"],
        [id |-> 1, name |-> AssistantName, instructions |-> "prompt_old"]>> }

\* an account in which PageLimit assistants of other applications were created
\* after the named one
ManyAssistants ==
    [i \in 1..PageLimit |->
        [id |-> PageLimit + 2 - i, name |-> "other", instructions |-> "prompt_other"]]
    \o <<[id |-> 1, name |-> AssistantName,
          instructions |-> _get_system_prompt(TRUE)]>>

InitAssistants == FewAssistants \cup {ManyAssistants}

\* a cache file an earlier run of the process left in data/
OldCache == [n \in {SiteFileName(1)} |-> [content |-> Dump(<<"r1">>), mtime |-> 0]]

\* the whole service, started with no data directory
Init ==
    /\ InitBase
    /\ apiKey \in {None, "", "sk-key"}
    /\ pleasanterKey \in {None, "pl-key"}
    /\ assistants \in FewAssistants
    /\ dirExists = FALSE
    /\ files = <<>>

\* the chat endpoint alone: the data directory is missing, empty or holds the
\* cache file of an earlier run
InitChat ==
    /\ InitBase
    /\ apiKey \in {None, "", "sk-key"}
    /\ pleasanterKey = "pl-key"
    /\ assistants \in InitAssistants
    /\ \/ dirExists = FALSE /\ files = <<>>
       \/ dirExists = TRUE /\ files \in {<<>>, OldCache}

\* the classifier alone
InitRoute ==
    /\ InitBase
    /\ apiKey = "sk-key"
    /\ pleasanterKey = "pl-key"
    /\ assistants = <<>>
    /\ dirExists = FALSE
    /\ files = <<>>

\* the site-id endpoint alone
InitSite ==
    /\ InitBase
    /\ apiKey = "sk-key"
    /\ pleasanterKey \in {None, "pl-key"}
    /\ assistants = <<>>
    /\ dirExists = FALSE
    /\ files = <<>>

(***************************************************************************)
(* The chat endpoint.                                                      *)
(***************************************************************************)
\* POST /api/chat arrives; the server has not run its handler yet
ReceiveChat ==
    /\ waiting + served < MaxChats
    /\ now <= StartWindow
    /\ waiting' = waiting + 1
    /\ UNCHANGED <<apiKey, pleasanterKey, now, assistants, served, pc, msg, route,
                   reply, calls, failed, self_assistant, assistant_id, json_file_path, uploaded,
                   start_time, lastPoll, runStatus, listing, diskVars>>

\* the event loop can start the handler of a waiting chat request
CanStartChat == waiting > 0 /\ ~LoopBusy

\* receive_chat, lines 167-171: a new ChatService (get_chat_service) for the
\* request and the call of process_message with its message, one of messages
StartChatFrom(messages) ==
    /\ CanStartChat
    /\ now <= StartWindow
    /\ msg' \in messages
    /\ waiting' = waiting - 1
    /\ served' = served + 1
    /\ pc' = "process_message"
    /\ UNCHANGED <<apiKey, pleasanterKey, now, assistants, route, reply, calls,
                   failed, self_assistant, assistant_id, json_file_path, uploaded,
                   start_time, lastPoll, runStatus, listing, diskVars>>

StartChat == StartChatFrom(ChatMessages)

\* receive_chat, line 172: the handler answers (or the exception leaves it) and
\* the request's service object is dropped
RespondChat ==
    /\ pc = "done"
    /\ pc' = "idle"
    /\ msg' = [core |-> <<>>, pad |-> 0]
    /\ route' = None
    /\ reply' = NoReply
    /\ calls' = NoCalls
    /\ failed' = FALSE
    /\ self_assistant' = NoId
    /\ assistant_id' = NoId
    /\ json_file_path' = NoPath
    /\ uploaded' = NoUpload
    /\ start_time' = 0
    /\ lastPoll' = 0
    /\ runStatus' = None
    /\ listing' = <<>>
    /\ UNCHANGED <<apiKey, pleasanterKey, now, assistants, waiting, served,
                   diskVars>>

\* process_message: the path for a message
Dispatch(message) ==
    LET needs_gpt4 == _needs_gpt4(message)
        needs_data == _needs_data_analysis(message)
    IN IF needs_data \/ needs_gpt4 THEN "advanced" ELSE "simple"

\* process_message up to the call of one of the two paths
ProcessMessage ==
    /\ pc = "process_message"
    /\ IF ~_initialize_client(apiKey)
       THEN /\ reply' = ErrorReply("API_KEY_INVALID", "")
            /\ pc' = "done"
            /\ route' = route
       ELSE /\ route' = Dispatch(Text(msg))
            /\ pc' = IF route' = "advanced" THEN "lookup" ELSE "completion"
            /\ reply' = reply
    /\ UNCHANGED <<apiKey, pleasanterKey, now, assistants, waiting, served, msg,
                   calls, failed, self_assistant, assistant_id, json_file_path, uploaded,
                   start_time, lastPoll, runStatus, listing, diskVars>>

\* _simple_chat: one completion call inside try/except
SimpleChat ==
    /\ pc = "completion"
    /\ calls' = Bump("completion")
    /\ \E out \in {"ok", "raise"} :
         /\ failed' = (out = "raise")
         /\ reply' = IF out = "ok" THEN Answer("completion_text")
                     ELSE ErrorReply("GENERAL_ERROR", "exception")
    /\ pc' = "done"
    /\ UNCHANGED <<apiKey, pleasanterKey, now, assistants, waiting, served, msg,
                   route, self_assistant, assistant_id, json_file_path, uploaded, start_time,
                   lastPoll, runStatus, listing, diskVars>>

\* _advanced_chat_with_data, lines 380-383: the dataset lookup, before the try.
\* f.stat() can raise once glob has found files; nothing catches it.
ResolveDataset ==
    /\ pc = "lookup"
    /\ calls' = Bump("site_file_lookup")
    /\ \E out \in {"ok", "raise"} :
         IF out = "raise"
         THEN /\ dirExists /\ Glob(files) # {}
              /\ json_file_path' = json_file_path
              /\ failed' = TRUE
              /\ reply' = Raised
              /\ pc' = "done"
         ELSE /\ IF _get_latest_site_file = {}
                 THEN json_file_path' = NoPath
                 ELSE json_file_path' \in _get_latest_site_file
              /\ failed' = (json_file_path' = NoPath)
              /\ pc' = AfterLookup(json_file_path')
              /\ reply' = IF pc' = "done" THEN ErrorReply("NO_DATA", "") ELSE reply
    /\ UNCHANGED <<apiKey, pleasanterKey, now, assistants, waiting, served, msg,
                   route, self_assistant, assistant_id, uploaded, start_time, lastPoll, runStatus,
                   listing, diskVars>>

\* the assistant of the provider with identifier id
AssistantIndex(id) == CHOOSE i \in 1..Len(assistants) : assistants[i].id = id

\* a job's return with the error its failed step gives
Abort(error) ==
    /\ failed' = TRUE
    /\ reply' = ErrorReply("GENERAL_ERROR", error)

\* _create_or_get_assistant, lines 283-290 and 302: assistants.list() and the
\* search for the fixed name
AssistantsList ==
    /\ pc = "assistant"
    /\ calls' = Bump("assistants_list")
    /\ \E out \in {"ok", "raise"} :
         IF out = "raise"
         THEN /\ self_assistant' = self_assistant
              /\ assistant_id' = NoId
              /\ pc' = AfterAssistant(NoId)
              /\ Abort("assistant_failed")
         ELSE LET i == FindAssistant(FirstPage(assistants))
                  system_prompt == _get_system_prompt(TRUE)
              IN /\ failed' = failed
                 /\ reply' = reply
                 /\ IF i = 0
                    THEN /\ self_assistant' = self_assistant
                         /\ assistant_id' = assistant_id
                         /\ pc' = "assistant_create"
                    ELSE /\ self_assistant' = assistants[i].id
                         /\ IF assistants[i].instructions # system_prompt
                            THEN /\ assistant_id' = assistant_id
                                 /\ pc' = "assistant_update"
                            ELSE /\ assistant_id' = assistants[i].id
                                 /\ pc' = AfterAssistant(assistant_id')
    /\ UNCHANGED <<apiKey, pleasanterKey, now, assistants, waiting, served, msg,
                   route, json_file_path, uploaded, start_time, lastPoll,
                   runStatus, listing, diskVars>>

\* _create_or_get_assistant, lines 293-300: assistants.update of the found one
AssistantsUpdate ==
    /\ pc = "assistant_update"
    /\ calls' = Bump("assistants_update")
    /\ \E out \in {"ok", "raise"} :
         IF out = "raise"
         THEN /\ assistants' = assistants
              /\ assistant_id' = NoId
              /\ pc' = AfterAssistant(NoId)
              /\ Abort("assistant_failed")
         ELSE /\ assistants' =
                   [assistants EXCEPT ![AssistantIndex(self_assistant)].instructions =
                                          _get_system_prompt(TRUE)]
              /\ assistant_id' = self_assistant
              /\ pc' = AfterAssistant(assistant_id')
              /\ UNCHANGED <<failed, reply>>
    /\ UNCHANGED <<apiKey, pleasanterKey, now, waiting, served, msg, route,
                   self_assistant, json_file_path, uploaded, start_time, lastPoll,
                   runStatus, listing, diskVars>>

\* _create_or_get_assistant, lines 303-313: assistants.create with the fixed name
AssistantsCreate ==
    /\ pc = "assistant_create"
    /\ calls' = Bump("assistants_create")
    /\ \E out \in {"ok", "raise"} :
         IF out = "raise"
         THEN /\ assistants' = assistants
              /\ self_assistant' = self_assistant
              /\ assistant_id' = NoId
              /\ pc' = AfterAssistant(NoId)
              /\ Abort("assistant_failed")
         ELSE LET new == [id |-> Len(assistants) + 1, name |-> AssistantName,
                          instructions |-> _get_system_prompt(TRUE)]
              IN /\ assistants' = <<new>> \o assistants
                 /\ self_assistant' = new.id
                 /\ assistant_id' = new.id
                 /\ pc' = AfterAssistant(assistant_id')
                 /\ UNCHANGED <<failed, reply>>
    /\ UNCHANGED <<apiKey, pleasanterKey, now, waiting, served, msg, route,
                   json_file_path, uploaded, start_time, lastPoll, runStatus,
                   listing, diskVars>>

\* _upload_file: open(file_path, "rb") and files.create inside try/except.
\* open raises when the path names no file.
UploadFile ==
    /\ pc = "upload"
    /\ calls' = Bump("files_create")
    /\ \E out \in {"ok", "raise"} :
         IF out = "raise" \/ json_file_path \notin DOMAIN files
         THEN /\ uploaded' = NoUpload
              /\ pc' = AfterUpload(None)
              /\ failed' = TRUE
              /\ reply' = IF pc' = "done"
                          THEN ErrorReply("GENERAL_ERROR", "upload_failed")
                          ELSE reply
         ELSE /\ uploaded' = [path |-> json_file_path,
                              content |-> files[json_file_path].content]
              /\ pc' = AfterUpload("file_id")
              /\ UNCHANGED <<failed, reply>>
    /\ UNCHANGED <<apiKey, pleasanterKey, now, assistants, waiting, served, msg,
                   route, self_assistant, assistant_id, json_file_path,
                   start_time, lastPoll, runStatus, listing, diskVars>>

\* a provider call of _advanced_chat_with_data that only the umbrella
\* except Exception (lines 439-441) guards
UmbrellaCall(at, op, next) ==
    /\ pc = at
    /\ calls' = Bump(op)
    /\ \E out \in {"ok", "raise"} :
         IF out = "raise"
         THEN /\ pc' = "done"
              /\ Abort("exception")
         ELSE /\ pc' = next
              /\ UNCHANGED <<failed, reply>>

\* line 401: threads.create()
ThreadsCreate ==
    /\ UmbrellaCall("thread", "threads_create", "post")
    /\ UNCHANGED <<apiKey, pleasanterKey, now, assistants, waiting, served, msg,
                   route, self_assistant, assistant_id, json_file_path, uploaded,
                   start_time, lastPoll, runStatus, listing, diskVars>>

\* lines 404-411: threads.messages.create with the attachment
MessagesCreate ==
    /\ UmbrellaCall("post", "messages_create", "run")
    /\ UNCHANGED <<apiKey, pleasanterKey, now, assistants, waiting, served, msg,
                   route, self_assistant, assistant_id, json_file_path, uploaded,
                   start_time, lastPoll, runStatus, listing, diskVars>>

\* lines 414-416 and 351: threads.runs.create, then _wait_for_completion takes
\* its start_time
RunsCreate ==
    /\ UmbrellaCall("run", "runs_create", "wait")
    /\ start_time' = IF pc' = "wait" THEN now ELSE start_time
    /\ runStatus' = runStatus
    /\ UNCHANGED <<apiKey, pleasanterKey, now, assistants, waiting, served, msg,
                   route, self_assistant, assistant_id, json_file_path, uploaded,
                   lastPoll, listing, diskVars>>

\* _wait_for_completion, lines 353-362: the loop condition holds and the run
\* is retrieved
PollRun ==
    /\ pc = "wait"
    /\ LoopCondition(now, start_time, Timeout)
    /\ calls' = Bump("runs_retrieve")
    /\ lastPoll' = now - start_time
    /\ \E out \in {"raise"} \cup RunStatuses :
         IF out = "raise"
         THEN /\ runStatus' = runStatus
              /\ pc' = "done"
              /\ Abort("exception")
         ELSE /\ runStatus' = Observed(out)
              /\ pc' = AfterPoll(out)
              /\ IF pc' = "done"
                 THEN Abort("run_timeout")
                 ELSE UNCHANGED <<failed, reply>>
    /\ UNCHANGED <<apiKey, pleasanterKey, now, assistants, waiting, served, msg,
                   route, self_assistant, assistant_id, json_file_path, uploaded,
                   start_time, listing, diskVars>>

\* _wait_for_completion, line 364: time.sleep(1), a blocking sleep
Sleep ==
    /\ pc = "sleep"
    /\ now' = now + SleepInterval
    /\ pc' = "wait"
    /\ UNCHANGED <<apiKey, pleasanterKey, assistants, waiting, served, msg, route,
                   reply, calls, failed, self_assistant, assistant_id,
                   json_file_path, uploaded, start_time, lastPoll, runStatus,
                   listing, diskVars>>

\* _wait_for_completion, lines 366-367, and lines 419-422: the loop condition is
\* false, the wait returns False and the job returns the timeout error
TimeoutExit ==
    /\ pc = "wait"
    /\ ~LoopCondition(now, start_time, Timeout)
    /\ pc' = "done"
    /\ Abort("run_timeout")
    /\ UNCHANGED <<apiKey, pleasanterKey, now, assistants, waiting, served, msg,
                   route, calls, self_assistant, assistant_id, json_file_path,
                   uploaded, start_time, lastPoll, runStatus, listing, diskVars>>

\* lines 425-437: threads.messages.list and the extraction of the reply
MessagesList ==
    /\ pc = "list"
    /\ calls' = Bump("messages_list")
    /\ \E out \in {<<>>} \cup Listings :
         \* the empty result stands for the call raising: a listing of the
         \* thread holds at least the message the job posted
         IF out = <<>>
         THEN /\ listing' = listing
              /\ Abort("exception")
         ELSE /\ listing' = out
              /\ IF ExtractReply(out) = None
                 THEN Abort("no_reply")
                 ELSE /\ reply' = Answer(ExtractReply(out))
                      /\ failed' = failed
    /\ pc' = "done"
    /\ UNCHANGED <<apiKey, pleasanterKey, now, assistants, waiting, served, msg,
                   route, self_assistant, assistant_id, json_file_path, uploaded,
                   start_time, lastPoll, runStatus, diskVars>>

(***************************************************************************)
(* The site-id endpoint.                                                   *)
(***************************************************************************)
\* a file opened in append mode: the new text follows the old
WriteFileAppend(fs, name, text, t) ==
    [n \in DOMAIN fs \cup {name} |->
        IF n = name
        THEN [content |-> (IF name \in DOMAIN fs THEN fs[name].content ELSE <<>>) \o text,
              mtime |-> t]
        ELSE fs[n]]

\* save_site_data_to_json, line 67: open(file_path, "w") truncates or creates
\* the file, which then holds what is written
WriteFile(fs, name, text, t) ==
    [n \in DOMAIN fs \cup {name} |->
        IF n = name THEN [content |-> text, mtime |-> t] ELSE fs[n]]

\* a global that is assigned before the save is attempted
StoreGlobalBeforeSave(saved, data, old) == data

\* receive_site_id, lines 225-239: the global dataset is assigned after the
\* save; the except of the save returns before the assignment
StoreGlobal(saved, data, old) == IF saved THEN data ELSE old

\* PleasanterClient._parse_response_data
_parse_response_data(response_json) == Len(response_json)

\* an envelope that is sent with HTTP 200 whatever its status
ResponseAlways200(success, site_id, message) ==
    [status |-> IF success THEN "success" ELSE "error",
     site_id |-> site_id,
     message |-> message,
     status_code |-> 200]

\* create_pleasanter_response
create_pleasanter_response(success, site_id, message) ==
    [status |-> IF success THEN "success" ELSE "error",
     site_id |-> site_id,
     message |-> message,
     status_code |-> IF success THEN 200 ELSE 500]

\* PleasanterClient._build_request_data raises ValueError without a key
HasPleasanterKey == ~(pleasanterKey = None \/ pleasanterKey = "")

\* the event loop can run a step of a site-id handler
CanStepFetch == ~LoopBusy

\* receive_site_id up to the await of client.post: get_records builds the
\* request; without a key the ValueError gives the error result at once
ReceiveSiteId(f, s) ==
    /\ fetch[f].pc = "none"
    /\ IF f = 1 THEN TRUE ELSE fetch[f - 1].pc # "none"
    /\ CanStepFetch
    /\ now <= StartWindow
    /\ IF HasPleasanterKey
       THEN fetch' = [fetch EXCEPT ![f] = [pc |-> "awaiting", site |-> s,
                                          data |-> NoData, reply |-> NoResponse]]
       ELSE fetch' = [fetch EXCEPT ![f] =
                [pc |-> "done", site |-> s, data |-> NoData,
                 reply |-> create_pleasanter_response(FALSE, s, "missing_api_key")]]
    /\ UNCHANGED <<apiKey, pleasanterKey, now, assistants, chatVars, dirExists,
                   files, prev, lastSaved, current_data>>

\* results of the awaited POST: a 200 with a payload, a 200 whose body
\* response.json() cannot parse (a ValueError), another status, a timeout, any
\* other exception
PostOutcomes ==
    {[kind |-> "ok", data |-> p] : p \in Payloads}
    \cup {[kind |-> k, data |-> NoData] :
              k \in {"bad_json", "http_error", "timeout", "exception"}}

\* receive_site_id from the return of client.post to its response: the result
\* of get_records, the save to the cache file, the global dataset
FetchResume(f) ==
    /\ fetch[f].pc = "awaiting"
    /\ CanStepFetch
    /\ \E r \in PostOutcomes, save \in {"ok", "open_error", "write_error"} :
         LET s == fetch[f].site
             name == SiteFileName(s)
         IN IF r.kind # "ok"
            THEN /\ save = "ok"
                 /\ fetch' = [fetch EXCEPT ![f] =
                        [pc |-> "done", site |-> s, data |-> NoData,
                         reply |-> create_pleasanter_response(FALSE, s, r.kind)]]
                 /\ UNCHANGED <<dirExists, files, prev, lastSaved, current_data>>
            ELSE IF save = "ok"
            THEN /\ dirExists' = TRUE
                 /\ prev' = IF name \in DOMAIN files THEN files[name].content ELSE <<>>
                 /\ lastSaved' = name
                 /\ files' = WriteFile(files, name, Dump(r.data), now)
                 /\ current_data' = StoreGlobal(TRUE, r.data, current_data)
                 /\ fetch' = [fetch EXCEPT ![f] =
                        [pc |-> "done", site |-> s, data |-> r.data,
                         reply |-> create_pleasanter_response(TRUE, s, "fetched")]]
            ELSE /\ dirExists' = TRUE
                 /\ prev' = prev
                 /\ lastSaved' = lastSaved
                 /\ files' = IF save = "open_error" THEN files
                             ELSE WriteFile(files, name, <<"{">>, now)
                 /\ current_data' = StoreGlobal(FALSE, r.data, current_data)
                 /\ fetch' = [fetch EXCEPT ![f] =
                        [pc |-> "done", site |-> s, data |-> r.data,
                         reply |-> create_pleasanter_response(FALSE, s, "save_failed")]]
    /\ UNCHANGED <<apiKey, pleasanterKey, now, assistants, chatVars>>

\* receive_site_id returns its response
ReturnSite(f) ==
    /\ fetch[f].pc = "done"
    /\ fetch' = [fetch EXCEPT ![f] = [NoFetch EXCEPT !.pc = "closed"]]
    /\ prev' = <<>>
    /\ UNCHANGED <<apiKey, pleasanterKey, now, assistants, chatVars, dirExists,
                   files, lastSaved, current_data>>

\* a second passes while no handler holds the event loop
Tick ==
    /\ ~LoopBusy
    /\ now < StartWindow
    /\ now' = now + 1
    /\ UNCHANGED <<apiKey, pleasanterKey, assistants, chatVars, diskVars>>

(***************************************************************************)
(* Specifications.                                                         *)
(***************************************************************************)
SiteRequest == \E f \in 1..MaxFetches, s \in Sites : ReceiveSiteId(f, s)
SiteResponse == \E f \in 1..MaxFetches : FetchResume(f)
SiteReturn == \E f \in 1..MaxFetches : ReturnSite(f)

ChatNext ==
    \/ ReceiveChat
    \/ StartChat
    \/ RespondChat
    \/ ProcessMessage
    \/ SimpleChat
    \/ ResolveDataset
    \/ AssistantsList
    \/ AssistantsUpdate
    \/ AssistantsCreate
    \/ UploadFile
    \/ ThreadsCreate
    \/ MessagesCreate
    \/ RunsCreate
    \/ PollRun
    \/ Sleep
    \/ TimeoutExit
    \/ MessagesList

SiteNext ==
    \/ SiteRequest
    \/ SiteResponse
    \/ SiteReturn

Next == ChatNext \/ SiteNext \/ Tick

\* the whole service
Spec == Init /\ [][Next]_vars

\* the chat endpoint
SpecChat == InitChat /\ [][ChatNext \/ Tick]_vars

\* receive_chat with any message of AllMessages
StartAnyChat == StartChatFrom(AllMessages)

\* the classifier: process_message up to its choice of a path
SpecRoute == InitRoute /\ [][ReceiveChat \/ StartAnyChat \/ ProcessMessage]_vars

\* the site-id endpoint
SpecSite == InitSite /\ [][SiteNext \/ Tick]_vars

\* a step of a running chat job: a provider call that returns or raises, the
\* local lookup, the sleep of the poll loop
JobStep ==
    \/ ProcessMessage
    \/ SimpleChat
    \/ ResolveDataset
    \/ AssistantsList
    \/ AssistantsUpdate
    \/ AssistantsCreate
    \/ UploadFile
    \/ ThreadsCreate
    \/ MessagesCreate
    \/ RunsCreate
    \/ PollRun
    \/ Sleep
    \/ TimeoutExit
    \/ MessagesList

\* the chat endpoint when every call of a job returns or raises and the sleep
\* of the poll loop ends
SpecChatLive == SpecChat /\ WF_vars(JobStep)

\* the fetches and the chat jobs together, both keys configured
InitData ==
    /\ InitBase
    /\ apiKey = "sk-key"
    /\ pleasanterKey = "pl-key"
    /\ assistants \in FewAssistants
    /\ dirExists = FALSE
    /\ files = <<>>

\* a chat job up to the upload of its dataset; what follows the upload reads
\* and writes nothing of the data directory
AttachNext ==
    \/ ReceiveChat
    \/ StartChat
    \/ RespondChat
    \/ ProcessMessage
    \/ SimpleChat
    \/ ResolveDataset
    \/ AssistantsList
    \/ AssistantsUpdate
    \/ AssistantsCreate
    \/ UploadFile

\* the dataset cache as the fetches write it and the chat jobs read it
SpecData == InitData /\ [][SiteNext \/ AttachNext \/ Tick]_vars

(***************************************************************************)
(* Properties of the chat job.                                             *)
(***************************************************************************)
\* the credential is missing or empty
KeyMissing == apiKey = None \/ apiKey = ""

\* C1: when the AI-provider credential is missing or empty, process_message
\* returns the fixed API_KEY_INVALID message and performs no provider call of
\* any kind and no dataset lookup.
C1_MissingKeyNoCalls ==
    (KeyMissing /\ pc # "idle") =>
        /\ pc \in {"process_message", "done"}
        /\ \A op \in Ops : calls[op] = 0
        /\ pc = "done" => reply = [kind |-> error_messages["API_KEY_INVALID"], text |-> ""]

\* a job answered the invalid-key message under an empty credential
C1_Witness ==
    /\ apiKey = ""
    /\ pc = "done"
    /\ reply.kind = error_messages["API_KEY_INVALID"]

\* the message holds a keyword of the dataset-analysis vocabulary
HasDataKeyword(m) ==
    \E i \in DOMAIN data_analysis_keywords : Contains(data_analysis_keywords[i], m)

\* the message holds a complexity keyword
HasComplexKeyword(m) ==
    \E i \in DOMAIN complex_keywords : Contains(complex_keywords[i], m)

\* the message matches an interrogative pattern: a question mark or the
\* three-character interrogative
MatchesInterrogative(m) == Contains(<<"?">>, m) \/ Contains(<<"do", "u", "ru">>, m)

\* C2: every message that contains a keyword of the dataset-analysis
\* vocabulary or matches an interrogative pattern is sent to the attachment
\* workflow; every other message under 100 characters without a complexity
\* keyword is sent to the stateless path.
C2_Routing ==
    route # None =>
        LET m == Text(msg) IN
        /\ (HasDataKeyword(m) \/ MatchesInterrogative(m)) =>
               (route = "advanced" /\ pc # "completion" /\ calls["completion"] = 0)
        /\ (~HasDataKeyword(m) /\ ~MatchesInterrogative(m)
              /\ Len(m) < 100 /\ ~HasComplexKeyword(m)) =>
               (route = "simple" /\ pc \in {"completion", "done"}
                  /\ calls["site_file_lookup"] = 0)

\* a message that only an interrogative pattern sends to the attachment
\* workflow has been routed
C2_Witness ==
    /\ msg.core = <<"do", "u", "ru">>
    /\ route = "advanced"
    /\ pc = "lookup"

\* the wait loop ran out of time with every poll non-terminal
TimedOut ==
    /\ pc \in {"wait", "done"}
    /\ runStatus = "pending"
    /\ now - start_time >= 60

\* C3: if every status poll returns a non-terminal status until the elapsed
\* time reaches the timeout of 60 s, the job aborts with the timeout error
\* reply, issues no status poll after the timeout has elapsed, and never lists
\* the thread's messages.
C3_Timeout ==
    /\ calls["runs_retrieve"] > 0 => lastPoll < 60
    /\ TimedOut =>
          /\ calls["messages_list"] = 0
          /\ pc = "done" =>
                (failed /\ reply = [kind |-> error_messages["GENERAL_ERROR"],
                                    text |-> "run_timeout"])

\* a job returned the timeout error after 60 polls
C3_Witness ==
    /\ TimedOut
    /\ pc = "done"
    /\ calls["runs_retrieve"] = 60
    /\ reply.text = "run_timeout"

\* the thread's messages were listed for a run observed as completed
Extracted == pc = "done" /\ runStatus = "completed" /\ listing # <<>>

\* message i of the listing is assistant-authored
IsAssistant(i) == listing[i].role = "assistant"

\* part j of message i is the first text-typed part of that message
IsFirstTextPart(i, j) ==
    /\ listing[i].content[j].type = "text"
    /\ \A k \in 1..(j - 1) : listing[i].content[k].type # "text"

HasTextPart(i) == \E j \in DOMAIN listing[i].content : IsFirstTextPart(i, j)

GenericFailure == [kind |-> error_messages["GENERAL_ERROR"], text |-> "no_reply"]

NoCacheFile == ~dirExists \/ Glob(files) = {}

\* C5: when a message is routed to the attachment workflow and no cached
\* dataset file exists, the job returns the NO_DATA error reply and makes no
\* call to the AI provider at all.
C5_NoDataNoProvider ==
    (route = "advanced" /\ NoCacheFile) =>
        /\ \A op \in ProviderOps : calls[op] = 0
        /\ pc \in {"lookup", "done"}
        /\ pc = "done" => reply = [kind |-> error_messages["NO_DATA"], text |-> ""]

\* a job of the attachment workflow returned NO_DATA after its lookup
C5_Witness ==
    /\ route = "advanced"
    /\ NoCacheFile
    /\ calls["site_file_lookup"] = 1
    /\ pc = "done"
    /\ reply.kind = error_messages["NO_DATA"]

\* C6: process_message never raises to its caller: whatever the outcome of a
\* provider call or of the dataset-file lookup, it terminates by returning a
\* string, the answer text or a formatted error message.
C6_NeverRaises ==
    pc = "done" =>
        reply.kind \in {"answer", error_messages["API_KEY_INVALID"],
                        error_messages["NO_DATA"], error_messages["GENERAL_ERROR"]}

\* provider operations other than the run-status poll
OnceOps == ProviderOps \ {"runs_retrieve"}

\* C7, part 1: within one job every provider operation other than the status
\* poll is issued at most once, the assistant being created or updated but
\* not both.
AtMostOnce ==
    /\ \A op \in OnceOps : calls[op] <= 1
    /\ calls["assistants_create"] + calls["assistants_update"] <= 1

\* C7, part 2: after the first step of a job that fails, no further provider
\* operation is issued for that job.
NoCallAfterFailure ==
    (failed /\ pc' # "idle") => \A op \in ProviderOps : calls'[op] = calls[op]

\* C7: no step is retried and a failure aborts the job.
C7_NoRetry == [](AtMostOnce) /\ [][NoCallAfterFailure]_vars

\* the upload of a job failed and the job ended without a thread or a run
C7_Witness ==
    /\ failed
    /\ pc = "done"
    /\ calls["files_create"] = 1
    /\ reply.text = "upload_failed"
    /\ calls["threads_create"] = 0 /\ calls["runs_create"] = 0

\* the provider's assistants that carry the fixed display name
Named == {i \in DOMAIN assistants : assistants[i].name = AssistantName}

\* C8: after any sequence and any interleaving of chat jobs resolving the
\* assistant, the provider holds at most one assistant with the fixed display
\* name; no job ever creates a second assistant with that name.
C8_SingleNamedAssistant == Cardinality(Named) <= 1

(***************************************************************************)
(* Properties of the scheduling.                                           *)
(***************************************************************************)
\* a chat job is inside a provider call or asleep between two status polls
JobWaiting ==
    pc \in {"completion", "assistant", "assistant_create", "assistant_update",
            "upload", "thread", "post", "run", "wait", "sleep", "list"}

\* C9: while one chat job sleeps between status polls or waits on a provider
\* call, other chat jobs and site-fetch requests can take steps: a waiting
\* chat request can start and a site fetch whose platform call has returned
\* can resume.
C9_OthersCanStep ==
    JobWaiting =>
        /\ waiting > 0 => CanStartChat
        /\ \A f \in DOMAIN fetch : fetch[f].pc = "awaiting" => CanStepFetch

(***************************************************************************)
(* Properties of the dataset cache.                                        *)
(***************************************************************************)
\* fetch f has saved its payload and is about to answer success
Saved(f) == fetch[f].pc = "done" /\ fetch[f].reply.status = "success"

\* the cache files of a site
CacheFilesOf(site) == {n \in DOMAIN files : n.stem = "site_" /\ n.id = site}

\* C10: after a successful fetch of a site that follows an earlier successful
\* fetch of the same site, the cache file of the site contains exactly the
\* platform response of the later fetch and nothing of the earlier one, and
\* there is exactly one cache file for that site.
C10_Overwrite ==
    \A f \in DOMAIN fetch :
        Saved(f) =>
            LET name == [stem |-> "site_", id |-> fetch[f].site, ext |-> ".json"]
            IN /\ name \in DOMAIN files
               /\ files[name].content = <<"{">> \o fetch[f].data \o <<"}">>
               /\ Cardinality(CacheFilesOf(fetch[f].site)) = 1

\* a second fetch of a site has replaced the different content that the first,
\* successful one left
C10_Witness ==
    \E f \in DOMAIN fetch :
        /\ Saved(f)
        /\ prev # <<>>
        /\ prev[Len(prev)] = "}"
        /\ prev # <<"{">> \o fetch[f].data \o <<"}">>
        /\ files[SiteFileName(fetch[f].site)].content # prev

\* the site cache files of the data directory
SiteCacheFiles == {n \in DOMAIN files : n.stem = "site_" /\ n.ext = ".json"}

\* the chat job has handed a dataset file to the provider
Attached == uploaded.path \in DOMAIN files

\* every cache file is as a successful fetch wrote it
AllSavedWhole == \A n \in SiteCacheFiles : files[n].content[Len(files[n].content)] = "}"

\* the attached file has the greatest modification timestamp of the cache files
AttachedIsGreatest ==
    /\ uploaded.path \in SiteCacheFiles
    /\ \A n \in SiteCacheFiles : files[n].mtime <= files[uploaded.path].mtime
    /\ uploaded.content = files[uploaded.path].content

\* C11 as first stated: after any sequence of successful fetches the dataset a
\* chat job attaches is the cache file with the greatest modification
\* timestamp, and it is always the file the most recent successful fetch wrote.
C11_LatestFetch ==
    (Attached /\ AllSavedWhole) => (AttachedIsGreatest /\ uploaded.path = lastSaved)

\* the file of the latest successful save is strictly newer than every other
StrictlyNewest ==
    /\ lastSaved \in SiteCacheFiles
    /\ \A n \in SiteCacheFiles \ {lastSaved} : files[n].mtime < files[lastSaved].mtime

\* C11: the dataset a chat job attaches is a cache file whose modification
\* timestamp is the greatest among all site cache files, whatever its site;
\* it is the file the most recent successful fetch wrote whenever that file's
\* timestamp is strictly greater than every other's (files of equal timestamp
\* are not told apart).
C11_GreatestTimestamp ==
    Attached => (AttachedIsGreatest /\ (StrictlyNewest => uploaded.path = lastSaved))

\* two sites are cached, the later fetch wrote the newer file and the job
\* attached it
C11_Witness ==
    /\ Attached
    /\ Cardinality(SiteCacheFiles) = 2
    /\ StrictlyNewest
    /\ uploaded.path = lastSaved

\* the operations of each step of the attachment workflow, in the order the
\* job performs them: Resolve Dataset first
CodeOrder ==
    << {"site_file_lookup"},
       {"assistants_list", "assistants_create", "assistants_update"},
       {"files_create"}, {"threads_create"}, {"messages_create"},
       {"runs_create"}, {"runs_retrieve"}, {"messages_list"} >>

\* the same steps in the numbered order of the written workflow: Resolve
\* Assistant first
WrittenOrder ==
    << {"assistants_list", "assistants_create", "assistants_update"},
       {"site_file_lookup"},
       {"files_create"}, {"threads_create"}, {"messages_create"},
       {"runs_create"}, {"runs_retrieve"}, {"messages_list"} >>

\* a step of the job issues operation op
Issues(op) == calls'[op] = calls[op] + 1

\* an operation of a step is issued only when every earlier step of order has
\* been performed and nothing of the job has failed
StartsInOrder(order) ==
    \A k \in DOMAIN order : \A op \in order[k] :
        Issues(op) =>
            /\ ~failed
            /\ \A j \in 1..(k - 1) : \E e \in order[j] : calls[e] > 0

\* the thread's messages are listed only after a poll observed completed
ListedAfterCompleted == calls["messages_list"] > 0 => runStatus = "completed"

\* C13 as first stated: the steps are performed in the numbered order (Resolve
\* Assistant, Resolve Dataset, Upload Attachment, Create Thread, Post Message,
\* Start Run, Poll Run, Extract Reply), none before every earlier one has
\* succeeded, and the messages are listed only after status completed.
C13_WrittenOrder == [][StartsInOrder(WrittenOrder)]_vars /\ []ListedAfterCompleted

\* C13: the steps are performed in the order Resolve Dataset, Resolve
\* Assistant, Upload Attachment, Create Thread, Post Message, Start Run, Poll
\* Run, Extract Reply, none before every earlier one has succeeded, and the
\* messages are listed only after a poll has observed status completed.
C13_CodeOrder == [][StartsInOrder(CodeOrder)]_vars /\ []ListedAfterCompleted

\* a job went through every step and returned the extracted reply
C13_Witness ==
    /\ pc = "done"
    /\ reply.kind = "answer"
    /\ \A k \in DOMAIN CodeOrder : \E op \in CodeOrder[k] : calls[op] > 0

\* process_message has been called and has not ended
Running == pc \notin {"idle", "done"}

\* the polls of one job are at most one per second of the timeout
BoundedPolls == calls["runs_retrieve"] <= 60

\* no poll follows one that observed completed, failed, cancelled or expired
NoPollAfterTerminal ==
    runStatus \in {"completed", "failed", "cancelled", "expired"} =>
        calls'["runs_retrieve"] <= calls["runs_retrieve"]

\* C14: assuming each provider call returns or raises and time advances,
\* process_message terminates on both paths; the poll loop ends at the first
\* of status completed, status failed/cancelled/expired and the timeout, so
\* the number of status polls of one job is bounded.
C14_Terminates ==
    /\ Running ~> (pc = "done")
    /\ []BoundedPolls
    /\ [][NoPollAfterTerminal]_vars

\* the run was observed as completed at the last poll the timeout allows and
\* the job returned its answer
C14_Witness ==
    /\ pc = "done"
    /\ runStatus = "completed"
    /\ calls["runs_retrieve"] = 60
    /\ reply.kind = "answer"

(***************************************************************************)
(* Properties of the site-id endpoint.                                     *)
(***************************************************************************)
\* the handler of request f is about to answer
Answering(f) == fetch[f].pc = "done"

\* the records platform answered request f with HTTP 200 and a body
PlatformReturned200(f) == fetch[f].data # <<"None">>

\* the handler of request f answers from the branch that follows its save
SaveSucceeded(f) == fetch[f].reply.message = "fetched"

\* C12: the site-id endpoint answers with status "success" and HTTP 200 if
\* and only if the platform call returned HTTP 200 and the cache file was
\* written; in every other case it answers with status "error" and HTTP 500;
\* the envelope always carries the requested site_id.
C12_Envelope ==
    \A f \in DOMAIN fetch :
        Answering(f) =>
            LET r == fetch[f].reply
                ok == PlatformReturned200(f) /\ SaveSucceeded(f)
            IN /\ r.site_id = fetch[f].site
               /\ ok => (r.status = "success" /\ r.status_code = 200)
               /\ ~ok => (r.status = "error" /\ r.status_code = 500)
               /\ r.status = "success" =>
                     /\ lastSaved = [stem |-> "site_", id |-> fetch[f].site, ext |-> ".json"]
                     /\ files[lastSaved].content = <<"{">> \o fetch[f].data \o <<"}">>

\* the platform returned 200, the save failed and the answer is an error with
\* HTTP 500
C12_Witness ==
    \E f \in DOMAIN fetch :
        /\ Answering(f)
        /\ PlatformReturned200(f)
        /\ ~SaveSucceeded(f)
        /\ fetch[f].reply.status = "error"
        /\ fetch[f].reply.status_code = 500

\* the handler of request f reaches its answer in this step
Answers(f) == fetch[f].pc # "done" /\ fetch'[f].pc = "done"

\* a request whose platform fetch failed leaves the cache files and the
\* in-memory dataset as they were
FailedFetchChangesNothing ==
    \A f \in DOMAIN fetch :
        (Answers(f) /\ fetch'[f].data = <<"None">>) =>
            (files' = files /\ current_data' = current_data)

\* the in-memory dataset changes only in the step of a request that answers
\* success, and the cache file of that request holds it
ReplacedOnlyOnSuccess ==
    current_data' # current_data =>
        \E f \in DOMAIN fetch :
            /\ Answers(f)
            /\ fetch'[f].reply.status = "success"
            /\ current_data' = fetch'[f].data

\* after a request that answers success the in-memory dataset is exactly the
\* payload written to the cache file of its site
SuccessStoresWritten ==
    \A f \in DOMAIN fetch :
        (Answers(f) /\ fetch'[f].reply.status = "success") =>
            LET name == [stem |-> "site_", id |-> fetch'[f].site, ext |-> ".json"]
            IN /\ name \in DOMAIN files'
               /\ files'[name].content = <<"{">> \o current_data' \o <<"}">>

\* C15: a site-id request whose platform fetch fails leaves every cache file
\* and the in-memory current dataset unchanged; the in-memory dataset is
\* replaced only by a request whose fetch succeeded and whose cache file was
\* written, and then holds exactly the payload written to that file.
C15_Frame ==
    [][FailedFetchChangesNothing /\ ReplacedOnlyOnSuccess /\ SuccessStoresWritten]_vars

\* a request whose fetch failed answers while the cache and the memory hold
\* the payload of an earlier request
C15_Witness ==
    \E f \in DOMAIN fetch :
        /\ fetch[f].pc = "done"
        /\ fetch[f].data = <<"None">>
        /\ fetch[f].reply.status = "error"
        /\ current_data # <<"None">>
        /\ lastSaved \in DOMAIN files
        /\ files[lastSaved].content = <<"{">> \o current_data \o <<"}">>

=============================================================================
